---- MODULE Spec2Model ----
(***************************************************************************)
(* Capping Engine of the index worker (workers/indexes/index_calcs.py and  *)
(* its earlier revision workers/kaxcap-factset/kaxcap_calcs.py).           *)
(*                                                                         *)
(* build_status aggregates constituents into an issuer table, derives the  *)
(* rule parameters from the region code and runs one of two iterative      *)
(* pin-and-redistribute loops over the issuer weights.  One loop iteration *)
(* is one action.  Weights are Python floats in the source; here they are  *)
(* exact fractions <<numerator, denominator>>, i.e. the real-number        *)
(* semantics of the same expressions.                                      *)
(***************************************************************************)
EXTENDS Integers, Sequences, FiniteSets, TLC

\* ---------------------------------------------------------------- bounds
MaxIssuers == 4    \* exhaustive family: every sorted table up to this size
MaxMcap == 5       \* exhaustive family: issuer market caps are 0..MaxMcap
MaxRun == 13       \* two-level family: up to MaxRun issuers per level
MaxLevel == 2      \* two-level family: the levels are market caps 0..MaxLevel
MaxCalls == 2      \* the engine is called at most this often on one table
MaxRows == 2       \* builders: a raw constituent table has up to MaxRows rows
BigShares == 9     \* builders: a share count is 0, 1 or BigShares
MaxRetries == 4    \* requests: max_retries is 0..MaxRetries (4 is the default)

\* ------------------------------------------------------ exact arithmetic
\* A weight is a fraction << numerator, denominator >>, denominator > 0, not
\* necessarily in lowest terms; values are compared with REq and RLt.
RZero == << 0, 1 >>
ROne == << 1, 1 >>

\* x and y over one denominator: << numerator of x, numerator of y, denominator >>
Common(x, y) ==
    IF x[2] = y[2] THEN << x[1], y[1], x[2] >>
    ELSE IF x[2] % y[2] = 0 THEN << x[1], y[1] * (x[2] \div y[2]), x[2] >>
    ELSE IF y[2] % x[2] = 0 THEN << x[1] * (y[2] \div x[2]), y[1], y[2] >>
    ELSE << x[1] * y[2], y[1] * x[2], x[2] * y[2] >>

\* (an operator argument is evaluated once, a LET definition at every use)
AddC(c) == << c[1] + c[2], c[3] >>
SubC(c) == << c[1] - c[2], c[3] >>
LtC(c) == c[1] < c[2]
EqC(c) == c[1] = c[2]

RAdd(x, y) == AddC(Common(x, y))

\* x - y for x >= y
RSub(x, y) == SubC(Common(x, y))

RMul(x, y) == << x[1] * y[1], x[2] * y[2] >>

\* x / y for y > 0
RDiv(x, y) ==
    IF x[2] = y[2] THEN << x[1], y[1] >> ELSE << x[1] * y[2], x[2] * y[1] >>

RLt(x, y) == LtC(Common(x, y))

RLeq(x, y) == ~RLt(y, x)

REq(x, y) == EqC(Common(x, y))

\* the literals of the source
Cap == << 9, 200 >>            \* 0.045
Exc7 == << 7, 100 >>           \* 0.07
Exc9 == << 9, 100 >>           \* 0.09
Agg36 == << 9, 25 >>           \* 0.36
TenPct == << 1, 10 >>          \* 0.10
FivePct == << 1, 20 >>         \* 0.05
FortyPct == << 2, 5 >>         \* 0.40

\* ------------------------------------------------------------ parameters
\* region codes a caller may pass; "" stands for an empty or missing code
RegionCodes == { "", "CPH", "hel", "STO", "OSL" }

\* str.upper() on the codes above
Upper(s) ==
    CASE s = "hel" -> "HEL"
      [] s = "cph" -> "CPH"
      [] s = "sto" -> "STO"
      [] OTHER -> s

\* (region or "CPH").upper()
RegionOrDefault(region) == Upper(IF region = "" THEN "CPH" ELSE region)

ParamsForRegion(region) ==
    LET r == RegionOrDefault(region)
    IN  IF r = "STO"
        THEN [cap |-> Cap, exceptionCap |-> Exc9, exceptionAggregateLimit |-> Agg36]
        ELSE [cap |-> Cap, exceptionCap |-> Exc7, exceptionAggregateLimit |-> Agg36]

\* build_status: params = _params_for_region(region); params["region"] = ...
BuildParams(region) ==
    LET p == ParamsForRegion(region)
    IN  [cap |-> p.cap, exceptionCap |-> p.exceptionCap,
         exceptionAggregateLimit |-> p.exceptionAggregateLimit,
         region |-> RegionOrDefault(region)]

\* --------------------------------------------------------- issuer table
RECURSIVE SumNat(_)
SumNat(s) == IF s = << >> THEN 0 ELSE Head(s) + SumNat(Tail(s))

\* _compute_issuer_mcaps on issuer totals already grouped and sorted by
\* descending uncapped market cap: initWeight = mcap / (total or 1.0), on the
\* uncapped and on the capped basis
\* mutant: the capped weights are taken over the uncapped total
ComputeIssuerMcapsOneTotal(mcaps, capped) ==
    [i \in 1..Len(mcaps) |->
        [issuer |-> i,
         mcap_uncapped |-> mcaps[i],
         mcap_capped |-> capped[i],
         initWeight_uncapped |-> << mcaps[i], IF SumNat(mcaps) # 0 THEN SumNat(mcaps) ELSE 1 >>,
         initWeight_capped |-> << capped[i], IF SumNat(mcaps) # 0 THEN SumNat(mcaps) ELSE 1 >>]]

ComputeIssuerMcaps(mcaps, capped) ==
    LET total_uncapped == SumNat(mcaps)
        total_capped == SumNat(capped)
        divisor == IF total_uncapped # 0 THEN total_uncapped ELSE 1
        divisor_capped == IF total_capped # 0 THEN total_capped ELSE 1
    IN  [i \in 1..Len(mcaps) |->
            [issuer |-> i,
             mcap_uncapped |-> mcaps[i],
             mcap_capped |-> capped[i],
             initWeight_uncapped |-> << mcaps[i], divisor >>,
             initWeight_capped |-> << capped[i], divisor_capped >>]]

Rep(v, n) == [i \in 1..n |-> v]

NonIncreasing(s) == \A i \in 1..(Len(s) - 1) : s[i] >= s[i + 1]

SmallInputs ==
    { s \in UNION { [1..n -> 0..MaxMcap] : n \in 1..MaxIssuers } : NonIncreasing(s) }

RunInputs ==
    { Rep(v[1], n[1]) \o Rep(v[2], n[2]) :
        v \in { << h, h - 1 >> : h \in 1..MaxLevel },
        n \in { m \in (0..MaxRun) \X (0..MaxRun) : m[1] + m[2] >= 1 } }

Inputs == SmallInputs \cup RunInputs

VARIABLES
    region,     \* region code handed to build_status
    quarterly,  \* build_status(..., quarterly): which engine runs
    issuers,    \* issuer table returned by _compute_issuer_mcaps
    pc,         \* "idle" | "loop" | "done": position of the engine call
    fixed,      \* dict issuer -> pinned weight
    t,          \* last tentative vector; the returned map when pc = "done"
    chosen,     \* issuer pinned by the last iteration (0: none)
    iter,       \* loop iterations executed by the current call
    calls,      \* calls started so far on this table
    last,       \* map returned by the previous call (<< >>: none)
    builder,    \* "engine" | "status" | "proforma": what is being run
    raw,        \* df_raw: the raw constituent table handed to a builder
    d,          \* the normalized constituent table
    names,      \* issuer key of each row of the issuer table
    aum_ccy,    \* build_quarterly_proforma(..., aum_ccy), in billions
    out,        \* the rows a builder returns
    issuers_flags,  \* build_status: issuer key -> set of breach flags
    run,        \* a worker run: its arguments and the tables it has written
    http        \* a call of _request_with_backoff

rowVars == << builder, raw, d, names, aum_ccy, out, issuers_flags, run, http >>
vars == << region, quarterly, issuers, pc, fixed, t, chosen, iter, calls, last,
           builder, raw, d, names, aum_ccy, out, issuers_flags, run, http >>

\* no worker is running; no request is being made
NoRun == [worker |-> "none"]
NoHttp == [pc |-> "none"]

N == Len(issuers)
InitW(i) == issuers[i].initWeight_uncapped
Params == BuildParams(region)
EmptyMap == [i \in {} |-> RZero]

\* ------------------------------------------------------ shared helpers
\* row order of a frame as the sequence of its issuer keys
RowOrder == [i \in 1..N |-> i]

RECURSIVE FirstBy(_, _, _, _, _)
\* scan s from position i: the element that no later element beats; best is
\* the winner so far, and a later element wins only when strictly better
FirstBy(s, key, i, best, smallest) ==
    IF i > Len(s) THEN best
    ELSE IF (smallest /\ RLt(key[s[i]], key[best]))
            \/ (~smallest /\ RLt(key[best], key[s[i]]))
         THEN FirstBy(s, key, i + 1, s[i], smallest)
         ELSE FirstBy(s, key, i + 1, best, smallest)

\* mutant: the candidates are sorted by descending weight
SortedAscHeadLargest(s, key) == FirstBy(s, key, 2, s[1], FALSE)

\* mutant: an unstable sort that puts the last of the equal elements first
SortedAscHeadLastTie(s, key) ==
    LET ties == SelectSeq(s, LAMBDA x : REq(key[x], key[FirstBy(s, key, 2, s[1], TRUE)]))
    IN  ties[Len(ties)]

\* sorted(s, key=key)[0]: the sort is stable, so among the elements of least
\* key the one that comes first in s
SortedAscHead(s, key) == FirstBy(s, key, 2, s[1], TRUE)

\* mutant: the violators are sorted by ascending weight
SortedDescHeadSmallest(s, key) == FirstBy(s, key, 2, s[1], TRUE)

\* s.sort(key=key, reverse=True); s[0]: reverse keeps the order of equal
\* elements, so among the elements of greatest key the one that comes first
SortedDescHead(s, key) == FirstBy(s, key, 2, s[1], FALSE)

\* [k for k in order if P(k)]
Filter(order, S) == SelectSeq(order, LAMBDA k : k \in S)

RECURSIVE SumFrom(_, _, _, _)
\* acc + w[keys[i]] + w[keys[i + 1]] + ...; acc is a fraction, so acc[2] > 0
SumFrom(keys, w, i, acc) ==
    IF acc[2] > 0 /\ i <= Len(keys)
    THEN SumFrom(keys, w, i + 1, RAdd(acc, w[keys[i]]))
    ELSE acc

\* sum of w[k] for k in the sequence of keys
SumOver(keys, w) == SumFrom(keys, w, 1, RZero)

\* mutant: the free issuers keep their initial weight next to the pins
TentativeRowsUnscaled(fx, free_total, remaining) ==
    [k \in 1..N |-> IF k \in DOMAIN fx THEN fx[k] ELSE InitW(k)] \o << >>

\* for row in init.iterrows(): out[issuer] = fixed.get(issuer, share);
\* the concatenation makes the rows a tuple of values
TentativeRows(fx, free_total, remaining) ==
    [k \in 1..N |->
        IF k \in DOMAIN fx THEN fx[k]
        ELSE RMul(RDiv(InitW(k), free_total), remaining)] \o << >>

\* mutant: the pinned weights are not taken off the distributable rest
RemainingWhole(sum_fixed) == ROne

\* remaining = max(0.0, 1.0 - sum_fixed)
Remaining(sum_fixed) ==
    IF RLt(ROne, sum_fixed) THEN RZero ELSE RSub(ROne, sum_fixed)

\* mutant: the initial weights of the free issuers are not renormalised
FreeTotalOne(free_sum) == ROne

\* free_total = free["initWeight_uncapped"].sum() or 1.0
FreeTotal(free_sum) == IF REq(free_sum, RZero) THEN ROne ELSE free_sum

\* tentative_weights(): pinned issuers keep their pin, the others share
\* max(0, 1 - sum_fixed) in proportion to their initial weights
TentativeWeights(fx) ==
    TentativeRows(fx,
        FreeTotal(SumOver(Filter(RowOrder, (1..N) \ DOMAIN fx),
                          [k \in 1..N |-> InitW(k)])),
        Remaining(SumOver(Filter(RowOrder, DOMAIN fx), fx)))

\* mutant: the new pin replaces the pins made so far
PinAlone(fx, k, v) == [j \in {k} |-> v]

\* fixed[k] = v
Pin(fx, k, v) == [j \in DOMAIN fx \cup {k} |-> IF j = k THEN v ELSE fx[j]]

\* --------------------------------------------------------- daily capping
\* mutant: stage 1 fixes the large issuers at their own weight, not at the cap
DailyStage1NoCap(fx, exc) ==
    LET add == { k \in 1..N : k \notin DOMAIN fx /\ RLt(TenPct, InitW(k)) }
    IN  [k \in DOMAIN fx \cup add |-> IF k \in DOMAIN fx THEN fx[k] ELSE InitW(k)]

\* mutant: stage 1 tests ">= 0.10"
DailyStage1Geq(fx, exc) ==
    LET add == { k \in 1..N : k \notin DOMAIN fx /\ RLeq(TenPct, InitW(k)) }
    IN  [k \in DOMAIN fx \cup add |-> IF k \in DOMAIN fx THEN fx[k] ELSE exc]

\* stage 1 of each iteration: pin every not yet pinned issuer whose original
\* weight exceeds 10% to the exception cap
DailyStage1(fx, exc) ==
    LET add == { k \in 1..N : k \notin DOMAIN fx /\ RLt(TenPct, InitW(k)) }
    IN  [k \in DOMAIN fx \cup add |-> IF k \in DOMAIN fx THEN fx[k] ELSE exc]

\* over5 = {k: v for k, v in t.items() if v > 0.05}, in dict order
Over5(tt) == Filter(RowOrder, { k \in 1..N : RLt(FivePct, tt[k]) })

\* candidates = sorted(over5.items(), key=weight); chosen = the first one
\* not pinned to exc (0 when there is none): the first of the sorted list
\* that passes the test is the head of the sorted list of those that pass
Eligible(over5, fx, exc) ==
    SelectSeq(over5, LAMBDA k : ~(k \in DOMAIN fx /\ REq(fx[k], exc)))

ChosenOf(eligible, tt) ==
    IF eligible = << >> THEN 0 ELSE SortedAscHead(eligible, tt)

\* mutant: the test "fixed.get(issuer) != exc" is left out
DailyChosenAny(tt, fx, exc) == ChosenOf(Over5(tt), tt)

DailyChosen(tt, fx, exc) == ChosenOf(Eligible(Over5(tt), fx, exc), tt)

\* agg = sum(over5.values())
DailyAgg(tt) == SumOver(Over5(tt), tt)

\* ----------------------------------------------------- quarterly capping
QRegion == Upper(Params.region)
TopCap == IF QRegion \in { "CPH", "HEL" } THEN Exc7 ELSE Cap
OtherCap == Cap
TopN == IF QRegion \in { "CPH", "HEL" } THEN 5 ELSE 0

\* init: the issuer rows sorted by descending initial weight.  The table
\* comes sorted by descending market cap from _compute_issuer_mcaps and the
\* weight is the market cap over a constant, so the rows keep their order
\* (rows of equal weight are taken in table order).
QOrder == RowOrder

Min(a, b) == IF a < b THEN a ELSE b

\* mutant: the exception slots go to the last rows of the sorted table
QuarterlyTailPins ==
    LET tail == { QOrder[N + 1 - i] : i \in 1..Min(TopN, N) }
    IN  [k \in tail |-> TopCap]

\* for row in init.head(top_n): fixed[issuer] = top_cap
QuarterlyTopPins ==
    LET head == { QOrder[i] : i \in 1..Min(TopN, N) }
    IN  [k \in head |-> TopCap]

\* mutant: "k not in fixed" is left out
QViolatorsAll(tt, fx) ==
    Filter(QOrder, { k \in 1..N : RLt(OtherCap, tt[k]) })

\* mutant: the violators are measured against the top cap
QViolatorsTopCap(tt, fx) ==
    Filter(QOrder, { k \in 1..N : k \notin DOMAIN fx /\ RLt(Exc7, tt[k]) })

\* violators = [k for k, v in t.items() if k not in fixed and v > other_cap]
QViolators(tt, fx) ==
    Filter(QOrder, { k \in 1..N : k \notin DOMAIN fx /\ RLt(OtherCap, tt[k]) })

\* ---------------------------------------------------------------- actions
\* mutant: the engine blanks the weights of the pinned rows in the caller's
\* table instead of in its copy
IssuersAfterCallInPlace(iss, fx) ==
    [i \in 1..Len(iss) |->
        IF i \in DOMAIN fx
        THEN [iss[i] EXCEPT !.initWeight_uncapped = << 0, @[2] >>]
        ELSE iss[i]]

\* the caller's issuer table after a call: the engines work on a copy
IssuersAfterCall(iss, fx) == iss

Init ==
    /\ region \in RegionCodes
    /\ quarterly \in BOOLEAN
    /\ \E mcaps \in Inputs : issuers = ComputeIssuerMcaps(mcaps, mcaps)
    /\ pc = "idle"
    /\ fixed = EmptyMap
    /\ t = << >>
    /\ chosen = 0
    /\ iter = 0
    /\ calls = 0
    /\ last = << >>
    /\ builder = "engine"
    /\ raw = << >>
    /\ d = << >>
    /\ names = << >>
    /\ aum_ccy = 0
    /\ out = << >>
    /\ issuers_flags = << >>
    /\ run = NoRun
    /\ http = NoHttp

\* build_status enters the engine selected by the quarterly flag
Call ==
    /\ pc \in { "idle", "done" }
    /\ calls < MaxCalls
    /\ pc' = "loop"
    /\ fixed' = IF quarterly THEN QuarterlyTopPins ELSE EmptyMap
    /\ last' = IF pc = "done" THEN t ELSE last
    /\ t' = << >>
    /\ chosen' = 0
    /\ iter' = 0
    /\ calls' = calls + 1
    /\ UNCHANGED << region, quarterly, issuers >>
    /\ UNCHANGED rowVars

Return(fx, tt) ==
    /\ pc' = "done"
    /\ fixed' = fx
    /\ t' = tt
    /\ chosen' = 0
    /\ iter' = iter + 1
    /\ issuers' = IssuersAfterCall(issuers, fx)
    /\ UNCHANGED << region, quarterly, calls, last >>
    /\ UNCHANGED rowVars

PinAndLoop(fx, tt, k, v) ==
    /\ pc' = "loop"
    /\ fixed' = Pin(fx, k, v)
    /\ t' = tt
    /\ chosen' = k
    /\ iter' = iter + 1
    /\ UNCHANGED << region, quarterly, issuers, calls, last >>
    /\ UNCHANGED rowVars

\* mutant: the aggregate is tested against 50%
DailyReturnHalf(fx, tt, agg) ==
    /\ RLeq(agg, << 1, 2 >>)
    /\ Return(fx, tt)

\* "if agg <= 0.40: return t"
DailyReturn(fx, tt, agg) ==
    /\ RLeq(agg, FortyPct)
    /\ Return(fx, tt)

\* "if chosen is None: return t"
DailyEscape(fx, tt, agg, pick) ==
    /\ ~RLeq(agg, FortyPct)
    /\ pick = 0
    /\ Return(fx, tt)

\* "fixed[chosen] = cap"
DailyPin(fx, tt, agg, pick) ==
    /\ ~RLeq(agg, FortyPct)
    /\ pick # 0
    /\ PinAndLoop(fx, tt, pick, Params.cap)

\* the three ways a daily iteration ends
DailyBranch(fx, tt, agg, pick) ==
    \/ DailyReturn(fx, tt, agg)
    \/ DailyEscape(fx, tt, agg, pick)
    \/ DailyPin(fx, tt, agg, pick)

DailyTentative(fx, tt) ==
    DailyBranch(fx, tt, DailyAgg(tt), DailyChosen(tt, fx, Params.exceptionCap))

DailyBody(fx) == DailyTentative(fx, TentativeWeights(fx))

\* one iteration of the loop of _apply_daily_capping
DailyIteration ==
    /\ pc = "loop" /\ ~quarterly
    /\ DailyBody(DailyStage1(fixed, Params.exceptionCap))

\* "if not violators: return t"
QuarterlyReturn(tt, violators) ==
    /\ violators = << >>
    /\ Return(fixed, tt)

\* "violators.sort(...); fixed[violators[0]] = other_cap"
QuarterlyPin(tt, violators) ==
    /\ violators # << >>
    /\ PinAndLoop(fixed, tt, SortedDescHead(violators, tt), OtherCap)

QuarterlyBranch(tt, violators) ==
    \/ QuarterlyReturn(tt, violators)
    \/ QuarterlyPin(tt, violators)

QuarterlyBody(tt) == QuarterlyBranch(tt, QViolators(tt, fixed))

\* one iteration of the loop of _apply_quarterly_exceptions
QuarterlyIteration ==
    /\ pc = "loop" /\ quarterly
    /\ QuarterlyBody(TentativeWeights(fixed))

Next ==
    \/ Call
    \/ DailyIteration
    \/ QuarterlyIteration

Spec == Init /\ [][Next]_vars

\* ------------------------------------------------- raw constituent table
\* a cell of a raw column: a number, a null, or text that is no number
Num(n) == [kind |-> "num", v |-> n]
NullCell == [kind |-> "null", v |-> 0]
TextCell == [kind |-> "text", v |-> 0]

\* issuer keys, in the order groupby puts them
IssuerNames == << "A", "B" >>

RequiredCols ==
    { "ticker", "name", "price", "shares", "shares_capped", "avg_vol_30d_millions" }
VendorCols == { "omx_weight", "omx_weight_capped" }
NumericCols ==
    { "price", "shares", "shares_capped", "avg_vol_30d_millions",
      "omx_weight", "omx_weight_capped" }

NoDamage == [row |-> 0, col |-> "", cell |-> NullCell]

\* the columns a raw table has, the vendor weights it carries (in percent)
\* and at most one cell that is null or unparseable
Shapes ==
    { [cols |-> RequiredCols \cup v, pattern |-> k, omx |-> w, damage |-> NoDamage] :
        v \in SUBSET VendorCols, k \in 0..MaxRows, w \in { 0, 50 } }
    \cup { [cols |-> (RequiredCols \cup VendorCols) \ { c }, pattern |-> 1, omx |-> 50,
            damage |-> NoDamage] :
             c \in { "price", "shares", "shares_capped", "avg_vol_30d_millions" } }
    \cup { [cols |-> RequiredCols \cup VendorCols, pattern |-> 1, omx |-> 50,
            damage |-> [row |-> 1, col |-> c, cell |-> x]] :
             c \in NumericCols, x \in { NullCell, TextCell } }

\* a column that is absent carries no information; a table with both vendor
\* columns carries positive uncapped weights; text is tried in the shares
\* column, a null in every numeric column
ShapesUsed ==
    { sh \in Shapes :
        /\ "omx_weight_capped" \notin sh.cols => sh.pattern = 0
        /\ "omx_weight" \notin sh.cols => sh.omx = 0
        /\ VendorCols \subseteq sh.cols => sh.omx = 50
        /\ sh.damage.cell = TextCell => sh.damage.col = "shares" }

\* vendor capped weight of row i in percent: all rows 4, or row k 50 and the
\* others 6
VendorPct(k, i) == IF k = 0 THEN 4 ELSE IF i = k THEN 50 ELSE 6

\* a constituent: its issuer, its share count and its capped share count,
\* which is at most the share count; a large holding is capped to 1 share
CoreRows ==
    { r \in [name : { IssuerNames[j] : j \in 1..Len(IssuerNames) },
             shares : { 0, 1, BigShares },
             shares_capped : { 0, 1 }] :
        /\ r.shares_capped <= r.shares
        /\ r.shares = BigShares => r.shares_capped = 1 }

Cores == UNION { [1..n -> CoreRows] : n \in 1..MaxRows }

RawCell(sh, i, col, cell) ==
    IF col \notin sh.cols THEN NullCell
    ELSE IF sh.damage.row = i /\ sh.damage.col = col THEN sh.damage.cell
    ELSE cell

MakeRaw(core, sh) ==
    [cols |-> sh.cols,
     rows |-> [i \in 1..Len(core) |->
        [ticker |-> i,
         name |-> core[i].name,
         price |-> RawCell(sh, i, "price", Num(2)),
         shares |-> RawCell(sh, i, "shares", Num(core[i].shares)),
         shares_capped |-> RawCell(sh, i, "shares_capped", Num(core[i].shares_capped)),
         avg_vol_30d_millions |-> RawCell(sh, i, "avg_vol_30d_millions", Num(3)),
         omx_weight |-> RawCell(sh, i, "omx_weight", Num(sh.omx)),
         omx_weight_capped |->
            RawCell(sh, i, "omx_weight_capped", Num(VendorPct(sh.pattern, i)))]]]

\* ------------------------------------------------------ _normalize_input
\* pd.to_numeric(column, errors="coerce"): what is no number becomes NaN
ToNumeric(c) == IF c.kind = "num" THEN c ELSE NullCell

\* .fillna(v)
FillNa(c, v) == IF c.kind = "null" THEN Num(v) ELSE c

Coerced(c) == FillNa(ToNumeric(c), 0).v

\* d["price"] and d["shares"] need their column (KeyError); d.get(column, 0.0)
\* of a missing column is the float 0.0, pd.to_numeric returns a scalar as it
\* is, and a float has no fillna (AttributeError)
NormalizeRaises(r) ==
    \/ "price" \notin r.cols
    \/ "shares" \notin r.cols
    \/ "shares_capped" \notin r.cols
    \/ "avg_vol_30d_millions" \notin r.cols

SumCol(rows, col) == SumNat([i \in 1..Len(rows) |-> rows[i][col]] \o << >>)

\* the coerced columns and the market caps
NormBase(r) ==
    [i \in 1..Len(r.rows) |->
        [ticker |-> r.rows[i].ticker,
         name |-> r.rows[i].name,
         price |-> Coerced(r.rows[i].price),
         shares |-> Coerced(r.rows[i].shares),
         shares_capped |-> Coerced(r.rows[i].shares_capped),
         avg_vol_30d_millions |-> Coerced(r.rows[i].avg_vol_30d_millions),
         avg_vol_30d |-> Coerced(r.rows[i].avg_vol_30d_millions) * 1000000,
         mcap_uncapped |-> Coerced(r.rows[i].shares) * Coerced(r.rows[i].price),
         mcap_capped |-> Coerced(r.rows[i].shares_capped) * Coerced(r.rows[i].price),
         mcap |-> 0,
         omx_weight |-> r.rows[i].omx_weight,
         omx_weight_capped |-> r.rows[i].omx_weight_capped]]

\* a normalizer without the capped fall-back
CappedFallbackNever(rows) == rows

\* no capped shares at all: the capped columns fall back to the uncapped ones
CappedFallback(rows) ==
    IF SumCol(rows, "mcap_capped") = 0 /\ SumCol(rows, "mcap_uncapped") > 0
    THEN [i \in 1..Len(rows) |->
            [rows[i] EXCEPT !.shares_capped = rows[i].shares,
                            !.mcap_capped = rows[i].mcap_uncapped]]
    ELSE rows

\* a proxy that does not look at the total market cap
WeightProxyAnyMcap(rows, cols) ==
    IF /\ "omx_weight" \in cols
       /\ SumNat([i \in 1..Len(rows) |-> Coerced(rows[i].omx_weight)] \o << >>) > 0
    THEN [i \in 1..Len(rows) |->
            [rows[i] EXCEPT !.mcap_uncapped = Coerced(rows[i].omx_weight),
                            !.mcap_capped = Coerced(rows[i].omx_weight),
                            !.shares = 1]]
    ELSE rows

\* no market cap at all: the vendor weight stands in for it
WeightProxy(rows, cols) ==
    IF /\ SumCol(rows, "mcap_uncapped") = 0
       /\ "omx_weight" \in cols
       /\ SumNat([i \in 1..Len(rows) |-> Coerced(rows[i].omx_weight)] \o << >>) > 0
    THEN [i \in 1..Len(rows) |->
            [rows[i] EXCEPT !.mcap_uncapped = Coerced(rows[i].omx_weight),
                            !.mcap_capped = Coerced(rows[i].omx_weight),
                            !.shares = 1]]
    ELSE rows

\* d["mcap"] = d["mcap_uncapped"]
WithMcap(rows) ==
    [i \in 1..Len(rows) |-> [rows[i] EXCEPT !.mcap = rows[i].mcap_uncapped]]

NormalizeInput(r) ==
    [cols |-> r.cols,
     rows |-> WithMcap(WeightProxy(CappedFallback(NormBase(r)), r.cols))]

\* ------------------------------------------- issuer table of a builder
\* d.get("issuer", d["name"].str.upper())
IssuerOf(row) == Upper(row.name)

RowsOf(rows, n) ==
    SelectSeq([i \in 1..Len(rows) |-> i] \o << >>, LAMBDA i : IssuerOf(rows[i]) = n)

\* groupby("issuer"): the issuers that occur, in key order
Grouped(rows) == SelectSeq(IssuerNames, LAMBDA n : RowsOf(rows, n) # << >>)

GroupSum(rows, n, col) ==
    SumNat([i \in 1..Len(rows) |-> IF IssuerOf(rows[i]) = n THEN rows[i][col] ELSE 0]
           \o << >>)

RECURSIVE SortedDesc(_, _)
\* s sorted by descending key, elements of equal key in their order in s
SortedDesc(s, key) ==
    IF s = << >> THEN << >>
    ELSE LET h == SortedDescHead(s, key)
         IN  << h >> \o SortedDesc(SelectSeq(s, LAMBDA x : x # h), key)

\* issuers.sort_values("mcap_uncapped", ascending=False): the issuer keys
IssuerKeys(rows) ==
    SortedDesc(Grouped(rows),
               [n \in { IssuerNames[j] : j \in 1..Len(IssuerNames) } |->
                    << GroupSum(rows, n, "mcap_uncapped"), 1 >>])

IssuerTable(rows, keys) ==
    ComputeIssuerMcaps(
        [k \in 1..Len(keys) |-> GroupSum(rows, keys[k], "mcap_uncapped")] \o << >>,
        [k \in 1..Len(keys) |-> GroupSum(rows, keys[k], "mcap_capped")] \o << >>)

\* row of the issuer table that holds issuer key n
IndexOf(n) == CHOOSE k \in 1..Len(names) : names[k] = n

\* ----------------------------------------------------------- rounding
RECURSIVE Gcd(_, _)
Gcd(a, b) == IF b = 0 THEN a ELSE Gcd(b, a % b)

Abs(n) == IF n < 0 THEN 0 - n ELSE n

\* the same fraction in lowest terms
Norm(x) == << x[1] \div Gcd(Abs(x[1]), x[2]), x[2] \div Gcd(Abs(x[1]), x[2]) >>

\* nearest integer to n / den, a tie to the even one
HalfEven(n, den) ==
    IF 2 * (n % den) < den THEN n \div den
    ELSE IF 2 * (n % den) > den THEN (n \div den) + 1
    ELSE IF (n \div den) % 2 = 0 THEN n \div den
    ELSE (n \div den) + 1

RoundTo(x, scale) == << HalfEven(x[1] * scale, x[2]), scale >>

\* Series.round(4) and Series.round(2)
Round4(x) == RoundTo(Norm(x), 10000)
Round2(x) == RoundTo(Norm(x), 100)

\* ------------------------------------------- _distribute_to_constituents
\* mutant: every row of an issuer gets the issuer's whole weight
ShareWhole(mcap, total) == IF total # 0 THEN ROne ELSE RZero

\* (r[mcap] / r[issuer total]) if the issuer total is not 0, else 0.0
Share(mcap, total) == IF total # 0 THEN << mcap, total >> ELSE RZero

Distribute(rows, w) ==
    [i \in 1..Len(rows) |->
        [ticker |-> rows[i].ticker,
         issuer |-> IssuerOf(rows[i]),
         issuer_share_uncapped |->
            Share(rows[i].mcap_uncapped, GroupSum(rows, IssuerOf(rows[i]), "mcap_uncapped")),
         issuer_share_capped |->
            Share(rows[i].mcap_capped, GroupSum(rows, IssuerOf(rows[i]), "mcap_capped")),
         weight |->
            RMul(w[IndexOf(IssuerOf(rows[i]))],
                 Share(rows[i].mcap_uncapped,
                       GroupSum(rows, IssuerOf(rows[i]), "mcap_uncapped"))),
         capped_weight |->
            RMul(w[IndexOf(IssuerOf(rows[i]))],
                 Share(rows[i].mcap_capped,
                       GroupSum(rows, IssuerOf(rows[i]), "mcap_capped")))]]

\* ------------------------------------------------------------ builders
OrOne(n) == IF n # 0 THEN n ELSE 1

\* vendor weight in percent / 100.0
VendorWeight(c) == << Coerced(c), 100 >>

\* build_status: current capped weight of row i of d
StatusCurrCapped(i) ==
    IF "omx_weight_capped" \in d.cols
    THEN VendorWeight(d.rows[i].omx_weight_capped)
    ELSE << d.rows[i].mcap_capped, OrOne(SumCol(d.rows, "mcap_capped")) >>

\* build_quarterly_proforma: current uncapped and capped weight of row i
ProformaCurrUncapped(i) ==
    IF "omx_weight" \in d.cols
    THEN VendorWeight(d.rows[i].omx_weight)
    ELSE << d.rows[i].mcap_uncapped, OrOne(SumCol(d.rows, "mcap_uncapped")) >>

ProformaCurrCapped(i) ==
    IF "omx_weight_capped" \in d.cols
    THEN VendorWeight(d.rows[i].omx_weight_capped)
    ELSE ProformaCurrUncapped(i)

\* current capped weight of an issuer: curr_by_issuer, the sum over its rows
CurrByIssuer(n) ==
    SumOver(RowsOf(d.rows, n), [i \in 1..Len(d.rows) |-> StatusCurrCapped(i)])

CurrMap == [n \in { names[k] : k \in 1..Len(names) } |-> CurrByIssuer(n)]

InitMap(n) == InitW(IndexOf(n))

\* "init_w > 0.10 and curr_w > exc + 1e-9"; the 1e-9 absorbs float error and
\* the comparison is strict on exact fractions
TenBreach(n, curr) ==
    RLt(TenPct, InitMap(n)) /\ RLt(Params.exceptionCap, curr[n])

\* over5 in the row order of curr_by_issuer (the groupby key order)
FlagOver5(curr) == SelectSeq(Grouped(d.rows), LAMBDA n : RLt(FivePct, curr[n]))

\* candidates whose initial weight is above 10% are passed over
FlagEligibleAll(over5) == over5

FlagEligible(over5) == SelectSeq(over5, LAMBDA n : ~RLt(TenPct, InitMap(n)))

\* the issuer that gets the 40% flag ("": none): the first of the candidates
\* sorted by ascending current weight whose initial weight is not above 10%
FortyChosen(curr) ==
    IF ~RLt(FortyPct, SumOver(FlagOver5(curr), curr)) THEN ""
    ELSE IF FlagEligible(FlagOver5(curr)) = << >> THEN ""
    ELSE SortedAscHead(FlagEligible(FlagOver5(curr)), curr)

IssuersFlags(curr) ==
    [n \in { names[k] : k \in 1..Len(names) } |->
        (IF TenBreach(n, curr) THEN { "10% breach" } ELSE {})
        \cup (IF FortyChosen(curr) = n THEN { "40% breach" } ELSE {})]

\* build_status from the engine's return to its own
StatusRows(dist, flags) ==
    [i \in 1..Len(dist) |->
        [ticker |-> dist[i].ticker,
         issuer |-> dist[i].issuer,
         weight |-> Round4(dist[i].weight),
         capped_weight |-> Round4(dist[i].capped_weight),
         delta_pct |-> RSub(dist[i].capped_weight, StatusCurrCapped(i)),
         flags |-> flags[dist[i].issuer]]]

\* aum = float(aum_ccy) if aum_ccy else default_aum, in billions
Aum ==
    IF aum_ccy # 0 THEN aum_ccy
    ELSE IF Params.region = "CPH" THEN 110
    ELSE IF Params.region = "HEL" THEN 22
    ELSE 0

\* delta_ccy in billions; delta_vol = delta_ccy / price / 1e6 in millions of
\* shares, 0.0 when the price is 0
DeltaCcy(delta_pct) == Norm(RMul(Norm(delta_pct), << Aum, 1 >>))

DeltaVol(delta_ccy, price) ==
    IF price # 0
    THEN Norm(RDiv(RMul(delta_ccy, << 1000, 1 >>), << price, 1 >>))
    ELSE RZero

RAbs(x) == << Abs(x[1]), x[2] >>

\* days to cover without the volume divisor
DaysToCoverUndivided(delta_vol, vol) == RAbs(delta_vol)

\* abs(delta_vol) / (avg_vol_30d_millions or 1.0)
DaysToCover(delta_vol, vol) == RDiv(RAbs(delta_vol), << OrOne(vol), 1 >>)

\* out["weight"] - out["curr_weight_capped"], before rounding
ProformaDelta(dist, i) ==
    RSub(Norm(dist[i].weight), Norm(ProformaCurrCapped(i)))

ProformaRow(dist, i) ==
    [ticker |-> dist[i].ticker,
     issuer |-> dist[i].issuer,
     mcap_uncapped |-> d.rows[i].mcap_uncapped,
     curr_weight_uncapped |-> Round4(ProformaCurrUncapped(i)),
     curr_weight_capped |-> Round4(ProformaCurrCapped(i)),
     weight |-> Round4(dist[i].weight),
     capped_weight |-> Round4(dist[i].capped_weight),
     delta_pct |-> Round4(ProformaDelta(dist, i)),
     delta_ccy |-> DeltaCcy(ProformaDelta(dist, i)),
     delta_vol |->
        Round2(DeltaVol(DeltaCcy(ProformaDelta(dist, i)),
                        d.rows[i].price)),
     days_to_cover |->
        Round2(DaysToCover(
            DeltaVol(DeltaCcy(ProformaDelta(dist, i)),
                     d.rows[i].price),
            d.rows[i].avg_vol_30d_millions))]

\* out.sort_values("mcap_uncapped", ascending=False)
ProformaOrder ==
    SortedDesc([i \in 1..Len(d.rows) |-> i] \o << >>,
               [i \in 1..Len(d.rows) |-> << d.rows[i].mcap_uncapped, 1 >>])

ProformaRows(dist) ==
    [k \in 1..Len(dist) |-> ProformaRow(dist, ProformaOrder[k])]

BuildRegions == { "CPH", "STO" }

BuildInit ==
    /\ builder \in { "status", "proforma" }
    /\ region \in BuildRegions
    /\ quarterly \in BOOLEAN
    /\ builder = "proforma" => quarterly
    /\ aum_ccy \in (IF builder = "proforma" THEN { 0, 5 } ELSE { 0 })
    /\ \E core \in Cores, sh \in ShapesUsed : raw = MakeRaw(core, sh)
    /\ pc = "raw"
    /\ issuers = << >>
    /\ fixed = EmptyMap
    /\ t = << >>
    /\ chosen = 0
    /\ iter = 0
    /\ calls = 0
    /\ last = << >>
    /\ d = << >>
    /\ names = << >>
    /\ out = << >>
    /\ issuers_flags = << >>
    /\ run = NoRun
    /\ http = NoHttp

\* d = _normalize_input(df_raw); issuers, _ = _compute_issuer_mcaps(d)
BuildStart ==
    /\ pc = "raw"
    /\ IF NormalizeRaises(raw)
       THEN /\ pc' = "raised"
            /\ UNCHANGED << d, names, issuers >>
       ELSE /\ pc' = "idle"
            /\ d' = NormalizeInput(raw)
            /\ names' = IssuerKeys(NormalizeInput(raw).rows)
            /\ issuers' = IssuerTable(NormalizeInput(raw).rows,
                                      IssuerKeys(NormalizeInput(raw).rows))
    /\ UNCHANGED << region, quarterly, fixed, t, chosen, iter, calls, last,
                    builder, raw, aum_ccy, out, issuers_flags, run, http >>

\* the builder hands the issuer table to the engine
BuildCall == pc = "idle" /\ builder # "engine" /\ Call

\* out = _distribute_to_constituents(d, final_issuer_w)
BuildDistribute ==
    /\ pc = "done" /\ builder # "engine"
    /\ pc' = "dist"
    /\ out' = Distribute(d.rows, t)
    /\ UNCHANGED << region, quarterly, issuers, fixed, t, chosen, iter, calls, last,
                    builder, raw, d, names, aum_ccy, issuers_flags, run, http >>

\* what a builder does with the distributed rows before it returns
BuildFinish ==
    /\ pc = "dist"
    /\ pc' = "built"
    /\ IF builder = "status"
       THEN /\ issuers_flags' = IssuersFlags(CurrMap)
            /\ out' = StatusRows(out, IssuersFlags(CurrMap))
       ELSE /\ issuers_flags' = << >>
            /\ out' = ProformaRows(out)
    /\ UNCHANGED << region, quarterly, issuers, fixed, t, chosen, iter, calls, last,
                    builder, raw, d, names, aum_ccy, run, http >>

BuildNext ==
    \/ BuildStart
    \/ BuildCall
    \/ DailyIteration
    \/ QuarterlyIteration
    \/ BuildDistribute
    \/ BuildFinish

BuildSpec == BuildInit /\ [][BuildNext]_vars

\* ------------------------------------- daily capping on a reordered table
\* rows i..j of the issuer table are the rows of one market cap
TieRun(i, j) ==
    /\ i < j
    /\ issuers[i].mcap_uncapped = issuers[j].mcap_uncapped
    /\ i > 1 => issuers[i - 1].mcap_uncapped # issuers[i].mcap_uncapped
    /\ j < N => issuers[j + 1].mcap_uncapped # issuers[j].mcap_uncapped

Swapped(iss, i, j) ==
    [k \in 1..Len(iss) |-> IF k = i THEN iss[j] ELSE IF k = j THEN iss[i] ELSE iss[k]]

PermInit == Init /\ ~quarterly

\* the table is sorted by market cap only: the issuers of one market cap may
\* come in another order; the first and the last of them change places
Permute ==
    /\ pc = "done" /\ calls = 1
    /\ \E i, j \in 1..N : TieRun(i, j) /\ issuers' = Swapped(issuers, i, j)
    /\ UNCHANGED << region, quarterly, pc, fixed, t, chosen, iter, calls, last >>
    /\ UNCHANGED rowVars

PermNext ==
    \/ Call
    \/ DailyIteration
    \/ Permute

PermSpec == PermInit /\ [][PermNext]_vars

\* ------------------------------------------- kaxcap-factset worker
\* fetch_kaxcap_raw returns these columns, filled with None when absent
KaxCols == { "ticker", "issuer", "price", "shares", "avg_30d_volume", "mcap", "region" }

KaxRaw(core) ==
    [cols |-> KaxCols,
     rows |-> [i \in 1..Len(core) |->
        [ticker |-> i,
         issuer |-> core[i].name,
         price |-> Num(2),
         shares |-> Num(core[i].shares),
         avg_30d_volume |-> Num(3)]]]

\* kaxcap_calcs._normalize_input: the name is the issuer, mcap = shares * price
KaxNormalizeInput(r) ==
    [cols |-> r.cols \cup { "name", "avg_vol_30d" },
     rows |-> [i \in 1..Len(r.rows) |->
        [ticker |-> r.rows[i].ticker,
         name |-> r.rows[i].issuer,
         issuer |-> r.rows[i].issuer,
         price |-> Coerced(r.rows[i].price),
         shares |-> Coerced(r.rows[i].shares),
         avg_vol_30d |-> Coerced(r.rows[i].avg_30d_volume),
         mcap |-> Coerced(r.rows[i].shares) * Coerced(r.rows[i].price)]]]

\* kaxcap_calcs._compute_issuer_mcaps: one market cap and one initial weight
KaxIssuerKeys(rows) ==
    SortedDesc(Grouped(rows),
               [n \in { IssuerNames[j] : j \in 1..Len(IssuerNames) } |->
                    << GroupSum(rows, n, "mcap"), 1 >>])

KaxIssuerTable(rows, keys) ==
    ComputeIssuerMcaps(
        [k \in 1..Len(keys) |-> GroupSum(rows, keys[k], "mcap")] \o << >>,
        [k \in 1..Len(keys) |-> GroupSum(rows, keys[k], "mcap")] \o << >>)

\* max_exceptions = int(limit // exc) if exc > 0 else 0
KaxMaxExceptions(p) ==
    IF RLt(RZero, p.exceptionCap)
    THEN (p.exceptionAggregateLimit[1] * p.exceptionCap[2])
            \div (p.exceptionAggregateLimit[2] * p.exceptionCap[1])
    ELSE 0

\* for i, row in issuers.head(max_exceptions).iterrows(): fixed[issuer] = exc
KaxTopPins(p) ==
    [k \in 1..Min(KaxMaxExceptions(p), N) |-> p.exceptionCap]

\* kaxcap_calcs._apply_quarterly_exceptions: one pass, no loop
KaxQuarterlyExceptions(p) == TentativeWeights(KaxTopPins(p))

\* kaxcap_calcs._distribute_to_constituents and the output of build_status
KaxStatusRows(rows, w) ==
    [i \in 1..Len(rows) |->
        [ticker |-> rows[i].ticker,
         issuer |-> rows[i].issuer,
         weight |-> RMul(w[IndexOf(rows[i].issuer)],
                         Share(rows[i].mcap, GroupSum(rows, rows[i].issuer, "mcap")))]]

\* ------------------------------------------------------- worker runs
Workers == { "indexes", "kaxcap-factset" }

\* argparse: --region has choices CPH, HEL, STO
RunRegions == { "CPH", "HEL", "STO" }

\* the table the worker fetched
RunRaw(worker, core) ==
    IF worker = "indexes"
    THEN MakeRaw(core, [cols |-> RequiredCols, damage |-> NoDamage, pattern |-> 0, omx |-> 0])
    ELSE KaxRaw(core)

RunInit ==
    /\ \E w \in Workers, q \in BOOLEAN :
        run = [worker |-> w, quarterly |-> q, constituents |-> << >>,
               quarterly_table |-> << >>]
    /\ region \in RunRegions
    /\ \E core \in Cores : raw = RunRaw(run.worker, core)
    /\ pc = "fetched"
    /\ builder = "status"
    /\ quarterly = FALSE
    /\ aum_ccy = 0
    /\ issuers = << >>
    /\ fixed = EmptyMap
    /\ t = << >>
    /\ chosen = 0
    /\ iter = 0
    /\ calls = 0
    /\ last = << >>
    /\ d = << >>
    /\ names = << >>
    /\ out = << >>
    /\ issuers_flags = << >>
    /\ http = NoHttp

\* df_status = build_status(df_raw, ..., quarterly=...): indexes/main.py passes
\* False, kaxcap-factset/main.py passes args.quarterly
RunBuildStatus ==
    /\ pc = "fetched"
    /\ pc' = "raw"
    /\ builder' = "status"
    /\ quarterly' = (IF run.worker = "indexes" THEN FALSE ELSE run.quarterly)
    /\ UNCHANGED << region, issuers, fixed, t, chosen, iter, calls, last,
                    raw, d, names, aum_ccy, out, issuers_flags, run, http >>

\* index_calcs.build_status and build_quarterly_proforma
RunStart == run.worker = "indexes" /\ BuildStart
RunDistribute == run.worker = "indexes" /\ BuildDistribute
RunFinish == run.worker = "indexes" /\ BuildFinish

\* both workers enter the same daily loop; index_calcs enters its quarterly one
RunCall == ~(run.worker = "kaxcap-factset" /\ quarterly) /\ BuildCall

\* kaxcap_calcs.build_status up to the issuer table
KaxStart ==
    /\ pc = "raw" /\ run.worker = "kaxcap-factset"
    /\ pc' = "idle"
    /\ d' = KaxNormalizeInput(raw)
    /\ names' = KaxIssuerKeys(KaxNormalizeInput(raw).rows)
    /\ issuers' = KaxIssuerTable(KaxNormalizeInput(raw).rows,
                                 KaxIssuerKeys(KaxNormalizeInput(raw).rows))
    /\ UNCHANGED << region, quarterly, fixed, t, chosen, iter, calls, last,
                    builder, raw, aum_ccy, out, issuers_flags, run, http >>

\* if quarterly: final_issuer_w = _apply_quarterly_exceptions(issuers, params)
KaxQuarterly ==
    /\ pc = "idle" /\ run.worker = "kaxcap-factset" /\ quarterly
    /\ pc' = "done"
    /\ fixed' = KaxTopPins(Params)
    /\ t' = KaxQuarterlyExceptions(Params)
    /\ calls' = calls + 1
    /\ UNCHANGED << region, quarterly, issuers, chosen, iter, last,
                    builder, raw, d, names, aum_ccy, out, issuers_flags, run, http >>

KaxFinish ==
    /\ pc = "done" /\ run.worker = "kaxcap-factset"
    /\ pc' = "built"
    /\ out' = KaxStatusRows(d.rows, t)
    /\ UNCHANGED << region, quarterly, issuers, fixed, t, chosen, iter, calls, last,
                    builder, raw, d, names, aum_ccy, issuers_flags, run, http >>

\* upsert_index_constituents(df_status): written with the methodology the
\* status was built with
RunUpsertStatus ==
    /\ pc = "built" /\ builder = "status" /\ run.worker \in Workers
    /\ pc' = "upserted"
    /\ run' = [run EXCEPT !.constituents =
                    << [methodology |-> IF quarterly THEN "quarterly" ELSE "daily",
                        rows |-> out] >>]
    /\ UNCHANGED << region, quarterly, issuers, fixed, t, chosen, iter, calls, last,
                    builder, raw, d, names, aum_ccy, out, issuers_flags, http >>

\* if args.quarterly: df_pro = build_quarterly_proforma(df_raw, ...)
RunBuildProforma ==
    /\ pc = "upserted" /\ run.worker = "indexes" /\ run.quarterly
    /\ pc' = "raw"
    /\ builder' = "proforma"
    /\ quarterly' = TRUE
    /\ issuers' = << >>
    /\ fixed' = EmptyMap
    /\ t' = << >>
    /\ chosen' = 0
    /\ iter' = 0
    /\ calls' = 0
    /\ last' = << >>
    /\ d' = << >>
    /\ names' = << >>
    /\ out' = << >>
    /\ issuers_flags' = << >>
    /\ UNCHANGED << region, raw, aum_ccy, run, http >>

\* upsert_index_quarterly(df_pro)
RunUpsertQuarterly ==
    /\ pc = "built" /\ builder = "proforma" /\ run.worker = "indexes"
    /\ pc' = "exit"
    /\ run' = [run EXCEPT !.quarterly_table =
                    << [methodology |-> "quarterly", rows |-> out] >>]
    /\ UNCHANGED << region, quarterly, issuers, fixed, t, chosen, iter, calls, last,
                    builder, raw, d, names, aum_ccy, out, issuers_flags, http >>

RunNext ==
    \/ RunBuildStatus
    \/ RunStart
    \/ KaxStart
    \/ RunCall
    \/ DailyIteration
    \/ QuarterlyIteration
    \/ KaxQuarterly
    \/ RunDistribute
    \/ RunFinish
    \/ KaxFinish
    \/ RunUpsertStatus
    \/ RunBuildProforma
    \/ RunUpsertQuarterly

RunSpec == RunInit /\ [][RunNext]_vars

\* ------------------------------------------------ _request_with_backoff
\* status codes of a response; "error" is requests.request raising
Statuses == { 200, 429, 500 }

\* the rate headers of a response: Retry-After is absent, a positive number
\* of seconds, 0, or an HTTP date; the reset time is absent, in the past, far
\* in the future, or no number
RateHeaders ==
    [retry_after : { "absent", "seconds", "zero", "date" },
     reset : { "absent", "past", "far", "text" }]

\* seconds a positive Retry-After header asks for
RetryAfterSeconds == 2

\* min(8.0, 1.5 * (2 ** attempt)), in tenths of a second
ExponentialWait(attempt) == Min(80, 15 * (2 ^ attempt))

\* _calc_wait_from_headers, in tenths of a second
CalcWaitFromHeaders(h, attempt) ==
    IF h.retry_after = "seconds" THEN 10 * RetryAfterSeconds
    ELSE IF h.reset = "past" THEN 10
    ELSE IF h.reset = "far" THEN 300
    ELSE ExponentialWait(attempt)

\* mutant: the retry budget is tested with ">"
GivesUpLate(status, attempt, max_retries) == status # 429 \/ attempt > max_retries

\* if r.status_code != 429 or attempt >= max_retries: return r
GivesUp(status, attempt, max_retries) == status # 429 \/ attempt >= max_retries

Request(v) == [ev |-> "request", v |-> v]
Sleep(w) == [ev |-> "sleep", v |-> w]

HttpInit ==
    /\ \E m \in 0..MaxRetries :
        http = [pc |-> "loop", max_retries |-> m, attempt |-> 0, log |-> << >>,
                result |-> 0]
    /\ run = NoRun
    /\ region = "CPH"
    /\ quarterly = FALSE
    /\ issuers = << >>
    /\ pc = "idle"
    /\ fixed = EmptyMap
    /\ t = << >>
    /\ chosen = 0
    /\ iter = 0
    /\ calls = 0
    /\ last = << >>
    /\ builder = "engine"
    /\ raw = << >>
    /\ d = << >>
    /\ names = << >>
    /\ aum_ccy = 0
    /\ out = << >>
    /\ issuers_flags = << >>

httpRest == << region, quarterly, issuers, pc, fixed, t, chosen, iter, calls, last,
               builder, raw, d, names, aum_ccy, out, issuers_flags, run >>

\* requests.request raises: the exception leaves the function
HttpRaise ==
    /\ http.pc = "loop"
    /\ http' = [http EXCEPT !.pc = "raised", !.log = Append(@, Request(0))]
    /\ UNCHANGED httpRest

\* the response is returned
HttpReturn ==
    /\ http.pc = "loop"
    /\ \E s \in Statuses :
        /\ GivesUp(s, http.attempt, http.max_retries)
        /\ http' = [http EXCEPT !.pc = "returned", !.result = s,
                                !.log = Append(@, Request(s))]
    /\ UNCHANGED httpRest

\* a 429 within the budget: wait_s, attempt += 1, time.sleep(wait_s)
HttpRetry ==
    /\ http.pc = "loop"
    /\ \E s \in Statuses, h \in RateHeaders :
        /\ ~GivesUp(s, http.attempt, http.max_retries)
        /\ http' = [http EXCEPT
                        !.attempt = @ + 1,
                        !.log = @ \o << Request(s),
                                        Sleep(CalcWaitFromHeaders(h, http.attempt)) >>]
    /\ UNCHANGED httpRest

\* one pass of "while True"
HttpIteration == HttpRaise \/ HttpReturn \/ HttpRetry

HttpNext == HttpIteration

HttpSpec == HttpInit /\ [][HttpNext]_vars

\* ------------------------------------------------------------ properties
DailyDone == pc = "done" /\ ~quarterly
QuarterlyDone == pc = "done" /\ quarterly
TotalMcap == SumNat([i \in 1..N |-> issuers[i].mcap_uncapped])
SumT == SumOver(RowOrder, t)
SumFixed == SumOver(Filter(RowOrder, DOMAIN fixed), fixed)
Pinned(k) == k \in DOMAIN fixed
PinnedAt(k, v) == k \in DOMAIN fixed /\ REq(fixed[k], v)
FreePositive == \E k \in 1..N : ~Pinned(k) /\ RLt(RZero, InitW(k))
AggT == DailyAgg(t)
EscapeHatch == DailyDone /\ RLt(FortyPct, AggT)
ExcCap == Params.exceptionCap

\* C1 as stated: whenever the total market cap is positive, the returned
\* issuer weights of either engine sum to 1.
C1_SumIsOne ==
    (pc = "done" /\ TotalMcap > 0) => REq(SumT, ROne)

\* C1 as amended: the returned weights sum to 1 when at return some issuer of
\* positive initial weight is left unpinned; otherwise every positive issuer
\* is pinned and the weights sum to the total of the pins, which is at most 1.
C1_SumIsOneWhenFree ==
    pc = "done" =>
        /\ FreePositive => REq(SumT, ROne)
        /\ ~FreePositive => (REq(SumT, SumFixed) /\ RLeq(SumT, ROne))

C1_Witness ==
    /\ pc = "done" /\ FreePositive /\ DOMAIN fixed # {}
    /\ REq(SumT, ROne)

\* C2 as stated: outside the escape hatch no daily weight exceeds the
\* exception cap of the region.
C2_NoWeightAboveExc ==
    (DailyDone /\ ~EscapeHatch) => \A k \in 1..N : RLeq(t[k], ExcCap)

\* C2 as amended: no issuer pinned by daily capping ends above the exception
\* cap, and after an escape-hatch return no issuer at all does; an issuer
\* that ends above it is unpinned, has an original weight of at most 10%, and
\* is at most 40% (the run returned on the 40% test).
C2_OnlyUnpinnedAboveExc ==
    DailyDone =>
        \A k \in 1..N :
            /\ Pinned(k) => RLeq(t[k], ExcCap)
            /\ RLt(ExcCap, t[k]) =>
                /\ ~Pinned(k)
                /\ RLeq(InitW(k), TenPct)
                /\ ~EscapeHatch
                /\ RLeq(t[k], FortyPct)

C2_Witness ==
    /\ DailyDone
    /\ \E k \in 1..N : RLt(ExcCap, t[k]) /\ ~Pinned(k)

\* C3: every daily iteration either returns or pins to the standard cap
\* exactly one issuer that was not pinned before (besides the stage-1 pins to
\* the exception cap), and a call makes at most N + 1 iterations, hence at
\* most N pins; an iteration is straight-line code, so the call returns.
C3_DailyTerminates ==
    [][(pc = "loop" /\ ~quarterly) =>
            /\ iter' = iter + 1
            /\ iter' <= N + 1
            /\ \/ pc' = "done" /\ chosen' = 0
               \/ /\ pc' = "loop"
                  /\ chosen' \in 1..N
                  /\ chosen' \notin DOMAIN fixed
                  /\ ~RLt(TenPct, InitW(chosen'))
                  /\ REq(fixed'[chosen'], Params.cap)
                  /\ \A k \in DOMAIN fixed : k \in DOMAIN fixed' /\ fixed'[k] = fixed[k]
                  /\ \A k \in DOMAIN fixed' \ DOMAIN fixed :
                        k = chosen' \/ REq(fixed'[k], ExcCap)]_vars

C3_Witness ==
    /\ DailyDone /\ N >= 2 /\ iter = N + 1
    /\ \A k \in 1..N : PinnedAt(k, Params.cap)

\* C4: in daily capping the issuers pinned to the exception cap are exactly
\* those whose original weight exceeds 10%: they are pinned by the first
\* iteration, before the first tentative vector, keep that pin, and carry
\* the exception cap in every tentative vector and in the result.
C4_Over10PinnedToExc ==
    (~quarterly /\ iter >= 1) =>
        \A k \in 1..N :
            /\ RLt(TenPct, InitW(k)) <=> PinnedAt(k, ExcCap)
            /\ RLt(TenPct, InitW(k)) => REq(t[k], ExcCap)

C4_Witness ==
    /\ DailyDone
    /\ \E k \in 1..N : RLt(TenPct, InitW(k)) /\ PinnedAt(k, ExcCap)
    /\ \E k \in 1..N : PinnedAt(k, Params.cap)

\* C5: the vector daily capping returns has an over-5% aggregate of at most
\* 40%, or every issuer above 5% in it is pinned to the exception cap.
C5_ReturnCondition ==
    DailyDone =>
        \/ RLeq(AggT, FortyPct)
        \/ \A k \in 1..N : RLt(FivePct, t[k]) => PinnedAt(k, ExcCap)

C5_Witness ==
    /\ EscapeHatch
    /\ \E k \in 1..N : PinnedAt(k, ExcCap) /\ RLt(FivePct, t[k])
    /\ \E k \in 1..N : PinnedAt(k, Params.cap) /\ ~RLt(FivePct, t[k])

\* C6: quarterly capping for CPH or HEL leaves the first five rows of the
\* table sorted by descending weight (all rows when there are fewer) at
\* exactly 0.07; for STO the call starts with no issuer pinned.
C6_TopFivePinned ==
    quarterly =>
        /\ (QRegion \in { "CPH", "HEL" } /\ pc \in { "loop", "done" }) =>
                \A k \in 1..Min(5, N) :
                    /\ PinnedAt(k, Exc7)
                    /\ pc = "done" => REq(t[k], Exc7)
                    /\ \A j \in (Min(5, N) + 1)..N : RLeq(InitW(j), InitW(k))
        /\ (QRegion = "STO" /\ pc = "loop" /\ iter = 0) => fixed = EmptyMap

C6_Witness ==
    /\ QuarterlyDone /\ QRegion \in { "CPH", "HEL" } /\ N > 5
    /\ \E k \in 6..N : PinnedAt(k, OtherCap)
    /\ \A k \in 1..5 : REq(t[k], Exc7)

\* C7: quarterly capping ends after at most N + 1 iterations with every
\* issuer outside the top slots at most at the 4.5% standard cap (the pinned
\* ones exactly at it), so no weight above 7% for CPH/HEL or 4.5% for STO.
C7_QuarterlyTerminatesCapped ==
    quarterly =>
        /\ iter <= N + 1
        /\ pc = "loop" => iter <= N
        /\ pc = "done" =>
            /\ \A k \in (Min(TopN, N) + 1)..N :
                /\ RLeq(t[k], OtherCap)
                /\ Pinned(k) => REq(t[k], OtherCap)
            /\ QRegion \in { "CPH", "HEL" } => \A k \in 1..N : RLeq(t[k], Exc7)
            /\ QRegion = "STO" => \A k \in 1..N : RLeq(t[k], OtherCap)

C7_Witness ==
    /\ QuarterlyDone /\ N > TopN
    /\ \E k \in (TopN + 1)..N : PinnedAt(k, OtherCap)
    /\ \E k \in (TopN + 1)..N : ~Pinned(k) /\ RLt(RZero, t[k])

\* the scenario of C8: daily capping, CPH, weights 0.50, 0.30, 0.20
C8_Scenario ==
    /\ DailyDone /\ region = "CPH" /\ N = 3
    /\ REq(InitW(1), << 1, 2 >>)
    /\ REq(InitW(2), << 3, 10 >>)
    /\ REq(InitW(3), << 1, 5 >>)

\* C8 as stated: A is pinned to 0.07, B to 0.045, the over-5% aggregate of
\* the result is at most 40% and the three weights sum to 1.
C8_PinsBToStandardCap ==
    C8_Scenario =>
        /\ PinnedAt(1, Exc7)
        /\ PinnedAt(2, Cap)
        /\ RLeq(AggT, FortyPct)
        /\ REq(SumT, ROne)

\* C8 as amended: all three weights exceed 10%, so the first iteration pins
\* A, B and C to 0.07 and returns; nothing is pinned to 0.045, the over-5%
\* aggregate is 0.21 and the three weights sum to 0.21.
C8_AllThreeAtExceptionCap ==
    C8_Scenario =>
        /\ iter = 1
        /\ \A k \in 1..3 : PinnedAt(k, Exc7) /\ REq(t[k], Exc7)
        /\ REq(AggT, << 21, 100 >>)
        /\ RLeq(AggT, FortyPct)
        /\ REq(SumT, << 21, 100 >>)

C8_Witness == C8_Scenario /\ REq(SumT, << 21, 100 >>)

C10_ZeroMcapZeroWeight ==
    pc = "done" =>
        \A k \in 1..N :
            issuers[k].mcap_uncapped = 0 =>
                REq(InitW(k), RZero) /\ REq(t[k], RZero)

\* C11: when one issuer holds the whole market cap, daily capping returns in
\* its first iteration a one-entry vector with that issuer at exactly the
\* exception cap; nobody receives the rest, so the vector sums to the cap.
C11_SingleIssuerAtExc ==
    (DailyDone /\ N = 1 /\ issuers[1].mcap_uncapped > 0) =>
        /\ iter = 1
        /\ Len(t) = 1
        /\ DOMAIN fixed = { 1 }
        /\ REq(t[1], ExcCap)
        /\ REq(SumT, ExcCap)
        /\ RLt(SumT, ROne)

C11_Witness ==
    /\ DailyDone /\ N = 1 /\ issuers[1].mcap_uncapped > 0
    /\ REq(InitW(1), ROne)
    /\ REq(SumT, Exc9)

\* C16 as stated: the parameters depend on the uppercased region code only
\* (exception cap 9% for STO and 7% otherwise, standard cap 4.5%), and every
\* code other than STO, known or not, gets the CPH rules in the quarterly
\* stage too: five exception slots at 7%.
C16_UnknownRegionGetsDefaults ==
    /\ REq(Params.cap, Cap)
    /\ REq(ExcCap, IF RegionOrDefault(region) = "STO" THEN Exc9 ELSE Exc7)
    /\ (quarterly /\ pc # "idle" /\ RegionOrDefault(region) # "STO") =>
            /\ TopN = 5
            /\ REq(TopCap, Exc7)
            /\ \A k \in 1..Min(5, N) : PinnedAt(k, Exc7)

\* C17: a daily iteration that does not return pins to the standard cap one
\* issuer that was not pinned before: the one of least tentative weight among
\* the issuers above 5% that are not pinned to the exception cap.
C17_PinsSmallestEligible ==
    [][(pc = "loop" /\ ~quarterly /\ pc' = "loop") =>
            /\ chosen' \in (1..N) \ DOMAIN fixed
            /\ RLt(FivePct, t'[chosen'])
            /\ ~RLt(TenPct, InitW(chosen'))
            /\ REq(fixed'[chosen'], Params.cap)
            /\ \A k \in 1..N :
                (RLt(FivePct, t'[k]) /\ ~(k \in DOMAIN fixed' /\ REq(fixed'[k], ExcCap)))
                    => RLeq(t'[chosen'], t'[k])
            /\ { k \in DOMAIN fixed' : REq(fixed'[k], Params.cap) }
                 = { k \in DOMAIN fixed : REq(fixed[k], Params.cap) } \cup { chosen' }]_vars

C17_Witness ==
    /\ pc = "loop" /\ ~quarterly /\ chosen \in 1..N
    /\ \E k \in 1..N : ~Pinned(k) /\ RLt(t[chosen], t[k])
    /\ \E k \in 1..N : k # chosen /\ PinnedAt(k, Params.cap)

\* the pins the tentative vector t was computed from: a looping iteration
\* adds its pin to fixed after computing t
FixedAtT ==
    IF pc = "loop" /\ chosen # 0
    THEN [k \in DOMAIN fixed \ { chosen } |-> fixed[k]]
    ELSE fixed
FreeAtT == Filter(RowOrder, (1..N) \ DOMAIN FixedAtT)
FreeSumAtT == SumOver(FreeAtT, [k \in 1..N |-> InitW(k)])
RestAtT == RSub(ROne, SumOver(Filter(RowOrder, DOMAIN FixedAtT), FixedAtT))

\* t against pins fx, unpinned issuers free, their initial weights' sum
\* free_sum and the distributable rest
TentativeAsStated(fx, free, free_sum, rest) ==
    /\ \A k \in DOMAIN fx : t[k] = fx[k]
    /\ RLeq(RZero, rest)
    /\ \A i \in free :
        /\ REq(RMul(t[i], free_sum), RMul(InitW(i), rest)) \/ REq(free_sum, RZero)
        /\ REq(free_sum, RZero) => REq(t[i], RZero)
        /\ \A j \in free : REq(RMul(t[i], InitW(j)), RMul(t[j], InitW(i)))

\* C18: every tentative vector of either loop gives a pinned issuer its pin
\* and an unpinned issuer (initial weight / sum of the unpinned initial
\* weights) x (1 - sum of the pins); so unpinned weights are proportional to
\* the initial weights, and all are 0 when the unpinned initial weights sum
\* to zero.
C18_TentativeVector ==
    (pc \in { "loop", "done" } /\ iter >= 1) =>
        TentativeAsStated(FixedAtT, (1..N) \ DOMAIN FixedAtT, FreeSumAtT, RestAtT)

C18_Witness ==
    /\ pc = "loop" /\ iter >= 2 /\ DOMAIN FixedAtT # {}
    /\ \E i, j \in (1..N) \ DOMAIN FixedAtT :
        /\ RLt(RZero, t[j]) /\ RLt(t[j], t[i])
        /\ REq(RMul(t[i], InitW(j)), RMul(t[j], InitW(i)))

\* C19: a quarterly iteration pins an issuer exactly when some unpinned
\* issuer has a tentative weight above 4.5%; it pins one issuer, to 4.5%: the
\* unpinned violator of greatest tentative weight, never a top-slot issuer.
C19_PinsLargestViolator ==
    [][(pc = "loop" /\ quarterly) =>
            /\ pc' = "loop" <=>
                  \E k \in (1..N) \ DOMAIN fixed : RLt(OtherCap, t'[k])
            /\ pc' = "loop" =>
                /\ chosen' \in (1..N) \ DOMAIN fixed
                /\ chosen' > Min(TopN, N)
                /\ RLt(OtherCap, t'[chosen'])
                /\ \A k \in (1..N) \ DOMAIN fixed : RLeq(t'[k], t'[chosen'])
                /\ DOMAIN fixed' = DOMAIN fixed \cup { chosen' }
                /\ REq(fixed'[chosen'], OtherCap)
                /\ \A k \in DOMAIN fixed : fixed'[k] = fixed[k]]_vars

C19_Witness ==
    /\ pc = "loop" /\ quarterly /\ chosen \in 1..N /\ TopN = 5
    /\ \A k \in 1..5 : PinnedAt(k, Exc7)
    /\ \E k \in 1..N : ~Pinned(k) /\ RLt(OtherCap, t[k]) /\ RLt(t[k], t[chosen])

\* ---------------------------------------------- properties of the builders
Aggregated == builder # "engine" /\ pc \in { "idle", "loop", "done", "dist", "built" }
TotalCapped == SumNat([i \in 1..N |-> issuers[i].mcap_capped] \o << >>)
SumInitUncapped == SumOver(RowOrder, [k \in 1..N |-> issuers[k].initWeight_uncapped])
SumInitCapped == SumOver(RowOrder, [k \in 1..N |-> issuers[k].initWeight_capped])

\* C12: after issuer aggregation the initial uncapped weights sum to 1 when
\* the total uncapped market cap is not zero and are all 0 when it is zero;
\* likewise the capped weights against the total capped market cap.
C12_InitialWeightsSumToOne ==
    Aggregated =>
        /\ TotalMcap # 0 => REq(SumInitUncapped, ROne)
        /\ TotalMcap = 0 => \A k \in 1..N : REq(issuers[k].initWeight_uncapped, RZero)
        /\ TotalCapped # 0 => REq(SumInitCapped, ROne)
        /\ TotalCapped = 0 => \A k \in 1..N : REq(issuers[k].initWeight_capped, RZero)

C12_Witness ==
    /\ Aggregated /\ pc = "idle" /\ N = 2
    /\ TotalCapped # 0 /\ TotalCapped # TotalMcap
    /\ ~REq(issuers[1].initWeight_capped, issuers[1].initWeight_uncapped)
    /\ REq(SumInitCapped, ROne) /\ REq(SumInitUncapped, ROne)

\* sum of a weight column of the distributed rows over the rows of issuer k
RowSum(k, col) ==
    SumOver(RowsOf(d.rows, names[k]), [i \in 1..Len(out) |-> out[i][col]])

\* C13 as stated: the distributed rows of every issuer sum to the issuer's
\* final weight, on the uncapped basis and on the capped basis.
C13_RowsSumToIssuerWeight ==
    pc = "dist" =>
        \A k \in 1..N :
            /\ REq(RowSum(k, "weight"), t[k])
            /\ REq(RowSum(k, "capped_weight"), t[k])

\* C13 as amended: on each basis the rows of an issuer sum to the issuer's
\* final weight when the issuer's market cap on that basis is not zero; when
\* it is zero every row of the issuer gets 0.
C13_RowsSumWhenIssuerHasMcap ==
    pc = "dist" =>
        \A k \in 1..N :
            /\ issuers[k].mcap_uncapped # 0 => REq(RowSum(k, "weight"), t[k])
            /\ issuers[k].mcap_capped # 0 => REq(RowSum(k, "capped_weight"), t[k])
            /\ \A i \in 1..Len(out) :
                out[i].issuer = names[k] =>
                    /\ issuers[k].mcap_uncapped = 0 => REq(out[i].weight, RZero)
                    /\ issuers[k].mcap_capped = 0 => REq(out[i].capped_weight, RZero)

C13_Witness ==
    /\ pc = "dist"
    /\ \E i, j \in 1..Len(out) :
        /\ i # j /\ out[i].issuer = out[j].issuer
        /\ RLt(RZero, out[i].weight) /\ RLt(out[i].weight, out[j].weight)
        /\ REq(out[i].capped_weight, out[j].capped_weight)
        /\ RLt(RZero, out[i].capped_weight)
        /\ REq(RAdd(out[i].weight, out[j].weight), t[IndexOf(out[i].issuer)])

\* C14: _normalize_input never raises on a raw table that has a ticker
\* column; whether a numeric column is present, missing, null or unparseable
\* every row comes out with numbers, 0 standing in for what is missing.
C14_NormalizerNeverRaises ==
    /\ pc # "raised"
    /\ (builder # "engine" /\ pc \notin { "raw", "raised" }) =>
        /\ Len(d.rows) = Len(raw.rows)
        /\ \A i \in 1..Len(d.rows) :
            /\ d.rows[i].price = Coerced(raw.rows[i].price)
            /\ d.rows[i].avg_vol_30d_millions = Coerced(raw.rows[i].avg_vol_30d_millions)
            /\ d.rows[i].shares \in Nat
            /\ d.rows[i].shares_capped \in Nat

\* the current capped weight of a row as C15 defines it: the vendor's capped
\* weight when the table has that field, else the share of the total capped
\* market cap
C15_Current(i) ==
    IF "omx_weight_capped" \in d.cols
    THEN << Coerced(d.rows[i].omx_weight_capped), 100 >>
    ELSE << d.rows[i].mcap_capped, OrOne(SumCol(d.rows, "mcap_capped")) >>

\* |x - y| <= two units of the fourth decimal, the rounding of the columns
C15_Close(x, y) ==
    /\ RLeq(RSub(x, y), << 2, 10000 >>)
    /\ RLeq(RSub(y, x), << 2, 10000 >>)

\* C15: in the rows either builder returns, delta_pct is the proposed capped
\* weight minus the current capped weight (up to the rounding of the output
\* columns to four decimals).
C15_DeltaIsCappedMinusCurrent ==
    pc = "built" =>
        \A k \in 1..Len(out) :
            C15_Close(out[k].delta_pct,
                      RSub(out[k].capped_weight, C15_Current(out[k].ticker)))

\* issuers with the 40% flag, and the issuers currently above 5%
Flagged40 == { n \in DOMAIN issuers_flags : "40% breach" \in issuers_flags[n] }
Flagged10 == { n \in DOMAIN issuers_flags : "10% breach" \in issuers_flags[n] }
CurrOver5 == { n \in DOMAIN issuers_flags : RLt(FivePct, CurrMap[n]) }
CurrAgg == SumOver(FlagOver5(CurrMap), CurrMap)
StatusBuilt == pc = "built" /\ builder = "status"

\* the issuers of Q of least current capped weight
Smallest(Q) == { f \in Q : \A k \in Q : RLeq(CurrMap[f], CurrMap[k]) }

\* C20 as stated: when the current capped weights of the issuers above 5%
\* sum to more than 40%, exactly one issuer has the 40% flag, the one of least
\* current capped weight among those above 5% without the 10% flag; when the
\* sum is at most 40% no issuer has it.
C20_FlagsSmallestUnflagged ==
    StatusBuilt =>
        IF RLt(FortyPct, CurrAgg)
        THEN \E f \in Smallest(CurrOver5 \ Flagged10) : Flagged40 = { f }
        ELSE Flagged40 = {}

\* C20 as amended: the candidates are the issuers above 5% whose initial
\* uncapped weight is at most 10%, flagged for 10% or not; the one of least
\* current capped weight gets the flag, and nobody does when there is no
\* candidate or the sum is at most 40%.
C20_FlagsSmallestNotAboveTen ==
    StatusBuilt =>
        IF RLt(FortyPct, CurrAgg) /\ { n \in CurrOver5 : ~RLt(TenPct, InitMap(n)) } # {}
        THEN \E f \in Smallest({ n \in CurrOver5 : ~RLt(TenPct, InitMap(n)) }) :
                Flagged40 = { f }
        ELSE Flagged40 = {}

C20_Witness ==
    /\ StatusBuilt /\ RLt(FortyPct, CurrAgg)
    /\ \E f \in Flagged40 :
        \E k \in CurrOver5 \ Flagged10 :
            RLt(TenPct, InitMap(k)) /\ RLt(CurrMap[k], CurrMap[f])

\* ------------------------------------------------ normalizer fall-backs
\* the table went through _normalize_input
Normalized == builder # "engine" /\ pc \notin { "raw", "raised" }
RawCappedShares ==
    SumNat([i \in 1..Len(raw.rows) |-> Coerced(raw.rows[i].shares_capped)] \o << >>)
RawUncappedMcap == SumCol(NormBase(raw), "mcap_uncapped")
RawCappedMcap == SumCol(NormBase(raw), "mcap_capped")
CappedAbsent == Normalized /\ RawCappedShares = 0 /\ RawUncappedMcap > 0

\* C21: when the capped share counts sum to zero while the total uncapped
\* market cap is positive, every normalized row has shares_capped = shares and
\* mcap_capped = mcap_uncapped, and every issuer's capped initial weight
\* equals its uncapped initial weight
C21_CappedFallsBackToUncapped ==
    CappedAbsent =>
        /\ \A i \in 1..Len(d.rows) :
            /\ d.rows[i].shares_capped = d.rows[i].shares
            /\ d.rows[i].mcap_capped = d.rows[i].mcap_uncapped
        /\ \A k \in 1..N :
            REq(issuers[k].initWeight_capped, issuers[k].initWeight_uncapped)

\* two issuers with market cap and no capped shares; a capped share count was
\* filled in from the share count
C21_Witness ==
    /\ CappedAbsent
    /\ N = 2
    /\ \A k \in 1..N : issuers[k].mcap_uncapped > 0
    /\ \E i \in 1..Len(d.rows) :
        d.rows[i].shares_capped > 0 /\ Coerced(raw.rows[i].shares_capped) = 0

RawOmxWeight ==
    SumNat([i \in 1..Len(raw.rows) |-> Coerced(raw.rows[i].omx_weight)] \o << >>)
ProxyCase ==
    Normalized /\ RawUncappedMcap = 0 /\ "omx_weight" \in raw.cols /\ RawOmxWeight > 0

\* C22: the vendor weight stands in for both market caps, with shares 1,
\* exactly when the computed total uncapped market cap is zero and the weight
\* column is present with a positive sum; in every other case the market caps
\* are price times the share counts of the normalized table
C22_ProxyExactlyWhenNoMcap ==
    Normalized =>
        \A i \in 1..Len(d.rows) :
            IF ProxyCase
            THEN /\ d.rows[i].mcap_uncapped = Coerced(raw.rows[i].omx_weight)
                 /\ d.rows[i].mcap_capped = Coerced(raw.rows[i].omx_weight)
                 /\ d.rows[i].shares = 1
            ELSE /\ d.rows[i].shares = Coerced(raw.rows[i].shares)
                 /\ d.rows[i].mcap_uncapped = d.rows[i].price * d.rows[i].shares
                 /\ d.rows[i].mcap_capped = d.rows[i].price * d.rows[i].shares_capped

\* the proxy acted on a table of two rows and replaced a share count of 0
C22_Witness ==
    /\ ProxyCase
    /\ Len(d.rows) = 2
    /\ \E i \in 1..Len(d.rows) :
        Coerced(raw.rows[i].shares) = 0 /\ d.rows[i].mcap_uncapped > 0

\* ---------------------------------------------------- proforma volumes
ProformaBuilt == pc = "built" /\ builder = "proforma"

\* row of d that output row k was made from
SourceRow(k) == CHOOSE i \in 1..Len(d.rows) : d.rows[i].ticker = out[k].ticker

\* x and y differ by at most the rounding of the output to two decimals
WithinCent(x, y) == RLeq(RAbs(RSub(Norm(x), Norm(y))), << 1, 100 >>)

DaysAsStated(delta_vol, vol) ==
    << Abs(Norm(delta_vol)[1]), Norm(delta_vol)[2] * (IF vol = 0 THEN 1 ELSE vol) >>

\* C23: in every proforma row days_to_cover is |delta_vol| over the 30-day
\* average volume in millions, over 1.0 when that volume is 0 or null, and
\* delta_vol is 0 when the price is 0; every division has a non-zero divisor
C23_DaysToCover ==
    ProformaBuilt =>
        \A k \in 1..Len(out) :
            /\ d.rows[SourceRow(k)].price = 0 => out[k].delta_vol[1] = 0
            /\ out[k].delta_vol[2] # 0 /\ out[k].days_to_cover[2] # 0
            /\ WithinCent(out[k].days_to_cover,
                          DaysAsStated(out[k].delta_vol,
                                       d.rows[SourceRow(k)].avg_vol_30d_millions))

\* a row with a volume and a trade, next to a row whose volume cell is null
\* and that has a trade as well
C23_Witness ==
    /\ ProformaBuilt
    /\ \E k \in 1..Len(out) :
        /\ d.rows[SourceRow(k)].avg_vol_30d_millions > 1
        /\ out[k].days_to_cover[1] > 0
    /\ \E k \in 1..Len(out) :
        /\ d.rows[SourceRow(k)].avg_vol_30d_millions = 0
        /\ out[k].days_to_cover[1] > 0

\* ------------------------------------------------------- worker runs
\* C24: whatever the worker and its --quarterly flag, the rows written to the
\* constituents table were computed with the daily methodology
C24_ConstituentsAlwaysDaily ==
    \A i \in 1..Len(run.constituents) : run.constituents[i].methodology = "daily"

\* ------------------------------------------------ _request_with_backoff
HttpCalled == http.pc \in { "loop", "returned", "raised" }
Requests == SelectSeq(http.log, LAMBDA e : e.ev = "request")
Sleeps == SelectSeq(http.log, LAMBDA e : e.ev = "sleep")

\* C25: a call sends at most max_retries + 1 requests; every request before
\* the last one was answered 429 and was followed by exactly one wait of
\* positive length; the first response that is not 429 is returned at once;
\* when all max_retries + 1 responses are 429 the last one is returned; the
\* call raises only when the request itself raises
C25_BoundedRetries ==
    HttpCalled =>
        /\ Len(Requests) <= http.max_retries + 1
        /\ \A i \in 1..Len(http.log) :
            http.log[i].ev = (IF i % 2 = 1 THEN "request" ELSE "sleep")
        /\ \A i \in 1..Len(Sleeps) : Sleeps[i].v > 0
        /\ \A i \in 1..(Len(Requests) - 1) : Requests[i].v = 429
        /\ http.pc = "loop" =>
            /\ Len(http.log) % 2 = 0
            /\ \A i \in 1..Len(Requests) : Requests[i].v = 429
            /\ Len(Requests) <= http.max_retries
        /\ http.pc = "returned" =>
            /\ Len(http.log) % 2 = 1
            /\ http.log[Len(http.log)].v = http.result
            /\ http.result = 429 => Len(Requests) = http.max_retries + 1
        /\ http.pc = "raised" => http.log[Len(http.log)] = Request(0)

\* the default budget of 4 retries is used up: five responses 429, four waits
C25_Witness ==
    /\ http.pc = "returned"
    /\ http.max_retries = 4
    /\ http.result = 429
    /\ Len(Requests) = 5
    /\ Len(Sleeps) = 4

\* ------------------------------------------ properties of the engines
\* C26: the weights either engine returns lie in [0, 1] and sum to at most
\* 1; they sum to exactly 1 when some unpinned issuer has a positive initial
\* weight, and otherwise to the sum of the pinned caps, the rest of the index
\* going to nobody
C26_WeightsWithinUnit ==
    pc = "done" =>
        /\ \A k \in 1..N : RLeq(RZero, t[k]) /\ RLeq(t[k], ROne)
        /\ RLeq(SumT, ROne)
        /\ IF FreePositive THEN REq(SumT, ROne) ELSE REq(SumT, SumFixed)

\* every issuer with weight is pinned, an issuer without weight is not, and
\* the pins leave part of the index unassigned
C26_Witness ==
    /\ pc = "done" /\ ~FreePositive /\ N >= 3
    /\ \E k \in 1..N : ~Pinned(k)
    /\ \E k \in 1..N : PinnedAt(k, Params.cap)
    /\ RLt(SumT, ROne)

\* issuers whose original weight exceeds 10%
Over10 == { k \in 1..N : RLt(TenPct, InitW(k)) }
Over10AtExc == << Cardinality(Over10) * ExcCap[1], ExcCap[2] >>
EscapeCount == IF REq(ExcCap, Exc9) THEN 5 ELSE 6

\* C27: daily capping returns a vector whose over-5% aggregate exceeds 40%
\* exactly when the issuers of original weight above 10%, at the exception
\* cap each, sum to more than 40%: six or more of them at 7%, five or more
\* at 9%; every issuer not pinned to the exception cap then ends at most at 5%
C27_EscapeIffManyLargeIssuers ==
    DailyDone =>
        /\ EscapeHatch <=> RLt(FortyPct, Over10AtExc)
        /\ EscapeHatch <=> Cardinality(Over10) >= EscapeCount
        /\ EscapeHatch =>
            \A k \in 1..N : ~PinnedAt(k, ExcCap) => RLeq(t[k], FivePct)

\* exactly as many large issuers as the escape needs, next to smaller ones
\* that the loop pinned to the standard cap
C27_Witness ==
    /\ EscapeHatch
    /\ Cardinality(Over10) = EscapeCount
    /\ \E k \in 1..N : PinnedAt(k, Params.cap)

\* the weight an unpinned issuer must exceed to be pinned by the loop
LoopThreshold == IF quarterly THEN OtherCap ELSE FivePct

\* C28: in both loops an iteration keeps every pin it finds and shows it in
\* its tentative vector, and from one iteration to the next the tentative
\* weight of an issuer that was not pinned in between does not decrease, so
\* an unpinned issuer above the threshold of the loop stays above it
C28_PinsKeptTentativesGrow ==
    [][pc = "loop" =>
            /\ \A k \in DOMAIN fixed :
                /\ k \in DOMAIN fixed'
                /\ fixed'[k] = fixed[k]
                /\ REq(t'[k], fixed[k])
            /\ iter >= 1 =>
                \A k \in (1..N) \ DOMAIN fixed :
                    /\ RLeq(t[k], t'[k])
                    /\ RLt(LoopThreshold, t[k]) => RLt(LoopThreshold, t'[k])]_vars

\* after three iterations two issuers are pinned to the standard cap and an
\* unpinned issuer stands above the threshold
C28_Witness ==
    /\ pc = "done" /\ iter >= 3
    /\ \E j, k \in 1..N : j # k /\ PinnedAt(j, Params.cap) /\ PinnedAt(k, Params.cap)
    /\ \E k \in 1..N : ~Pinned(k) /\ RLt(LoopThreshold, t[k])

\* C29: quarterly capping keeps the ranking: an issuer of strictly greater
\* initial weight than another ends with at least the other's final weight
C29_QuarterlyKeepsRanking ==
    QuarterlyDone =>
        \A i, j \in 1..N :
            RLt(InitW(j), InitW(i)) => RLeq(t[j], t[i])

\* a top slot, an issuer pinned to the standard cap and a strictly smaller
\* unpinned issuer with weight
C29_Witness ==
    /\ QuarterlyDone
    /\ \E h, i, j \in 1..N :
        /\ RLt(InitW(j), InitW(i))
        /\ PinnedAt(h, Exc7) /\ PinnedAt(i, OtherCap) /\ ~Pinned(j)
        /\ RLt(RZero, t[j]) /\ RLt(t[j], t[i]) /\ RLt(t[i], t[h])

\* -------------------------------------------- equal issuers, row order
SameInit(i, j) == REq(InitW(i), InitW(j))

\* the issuer that stands in row k
IssuerAt(k) == issuers[k].issuer

\* C30 as stated: daily capping gives two issuers of the same initial weight
\* the same final weight, and after the rows of the issuer table are
\* reordered every issuer gets the final weight it got before
C30_EqualIssuersAnyOrder ==
    DailyDone =>
        /\ \A i, j \in 1..N : SameInit(i, j) => REq(t[i], t[j])
        /\ calls = 2 => \A k \in 1..N : REq(t[k], last[IssuerAt(k)])

\* C30 as amended: two issuers of the same initial weight get the same final
\* weight when both or neither are pinned; the loop pins issuers of one
\* initial weight in row order, so when only some are pinned these are the
\* first ones, at the standard cap and below the others; after two rows of
\* equal initial weight change places the final weights stay with the rows
C30_TiesBrokenInRowOrder ==
    DailyDone =>
        /\ \A i, j \in 1..N :
            SameInit(i, j) =>
                /\ (Pinned(i) <=> Pinned(j)) => REq(t[i], t[j])
                /\ (i < j /\ Pinned(j)) => Pinned(i)
                /\ (Pinned(i) /\ ~Pinned(j)) =>
                        PinnedAt(i, Params.cap) /\ RLt(t[i], t[j])
        /\ calls = 2 => \A k \in 1..N : REq(t[k], last[k])

\* two issuers of one initial weight changed places between two calls and
\* each got the final weight the other had got
C30_Witness ==
    /\ DailyDone /\ calls = 2
    /\ \E i, j \in 1..N :
        /\ i < j /\ SameInit(i, j)
        /\ IssuerAt(i) = j /\ IssuerAt(j) = i
        /\ PinnedAt(i, Params.cap) /\ ~Pinned(j)
        /\ REq(t[i], last[i]) /\ REq(t[j], last[j]) /\ RLt(t[i], t[j])

====
